---- MODULE Spec2Model ----
(***************************************************************************)
(* Model of the TDD Inventory System data layer: the sqlite tables events, *)
(* collaterals and transactions of data/inventory.db, the backend          *)
(* functions of backend/events.py and backend/collaterals.py that write    *)
(* and read them, and the console variant of event deletion in app.py.     *)
(*                                                                         *)
(* A table is a function from the ids of its rows to the rows.  Every      *)
(* backend function opens a connection, runs its statements, commits and   *)
(* closes, so one call is one action.  The variable last records the call  *)
(* that was made last: its arguments, its return value and the exception   *)
(* it raised, if any.  The variable now is the reading of the clock        *)
(* (datetime.now() to the second) that a call stamps its rows with; it     *)
(* advances in the step Tick, and the specifications without that step     *)
(* are those of calls that all fall into the same second.  The variable    *)
(* logs is the table logs of data/logs.db.  The variable conn holds, for   *)
(* each process, the call it is in the middle of, if any: where a call is  *)
(* taken statement by statement, what its connection has written and not   *)
(* yet committed is kept there, and the tables are what is committed.      *)
(***************************************************************************)
EXTENDS Integers, Sequences, FiniteSets, TLC

VARIABLES events, collaterals, transactions, seq, now, last, logs, conn

vars == <<events, collaterals, transactions, seq, now, last, logs, conn>>

store == <<events, collaterals, transactions, seq>>

(***************************************************************************)
(* Bounds of the model.                                                    *)
(***************************************************************************)
MaxEvents == 2      \* event ids handed out
MaxItems == 2       \* item ids handed out
MaxTx == 2          \* transaction ids handed out
MaxTime == 2        \* seconds the clock advances
MaxLogs == 3        \* log entries written

(***************************************************************************)
(* Values.  NULL is SQL NULL / Python None in a text column, NoId is the   *)
(* same in an id column (AUTOINCREMENT ids start at 1).                    *)
(***************************************************************************)
NULL == "NULL"
NoId == 0

EventIds == 1..MaxEvents
\* ids a caller may pass: the ids handed out and one that is never a row
EventIdArgs == 1..(MaxEvents + 1)
ItemIdArgs == 1..(MaxItems + 1)
EventRefs == {NoId} \cup EventIds

EventNames == {"Expo", "Gala"}
ItemNames == {"Banner", "Chair"}
Locations == {NULL, "", "Hall"}
\* (start_date, end_date): no dates, or a range
DateRanges == {<<NULL, NULL>>, <<"2025-01-01", NULL>>,
               <<"2025-01-01", "2025-01-02">>}
\* quantities given to create_collateral and update_collateral, and deltas
\* given to spend_collateral: some overspend every quantity, some restock
Quantities == {-1, 0, 2}
Deltas == {-3, -1, 1}

Max(S) == CHOOSE m \in S : \A x \in S : x <= m

\* the larger of two integers: Python's max(a, b)
max(a, b) == IF a >= b THEN a ELSE b

\* the ids of S in descending order: ORDER BY id DESC
RECURSIVE OrderByIdDesc(_)
OrderByIdDesc(S) ==
    IF S = {} THEN <<>>
    ELSE LET m == Max(S) IN <<m>> \o OrderByIdDesc(S \ {m})

\* the table t with row r stored under id (INSERT, or UPDATE of a row)
Put(t, id, r) == [i \in DOMAIN t \cup {id} |-> IF i = id THEN r ELSE t[i]]

\* the table t without the rows whose id is in ids (DELETE)
Remove(t, ids) == [i \in DOMAIN t \ ids |-> t[i]]

(***************************************************************************)
(* database.py: the three tables are empty after create_tables, and        *)
(* sqlite_sequence holds for each AUTOINCREMENT table the largest id ever  *)
(* handed out.                                                             *)
(***************************************************************************)
create_tables ==
    /\ events = << >>
    /\ collaterals = << >>
    /\ transactions = << >>
    /\ seq = [events |-> 0, collaterals |-> 0, transactions |-> 0]

\* the processes that use the database file, and a process between calls
Procs == {"p1", "p2"}
Idle == [pc |-> "idle"]

Init ==
    /\ create_tables
    /\ now = 0
    /\ last = [op |-> "init_db", err |-> "none"]
    /\ logs = << >>
    /\ conn = [p \in Procs |-> Idle]

(***************************************************************************)
(* events.py                                                               *)
(***************************************************************************)

\* INSERT INTO events ...; commit; return cur.lastrowid
create_event(name, start_date, end_date, location) ==
    LET last_id == seq.events + 1 IN
    /\ seq.events < MaxEvents
    /\ events' = Put(events, last_id,
                     [event_name |-> name, location |-> location,
                      start_date |-> start_date, end_date |-> end_date,
                      last_modified |-> now])
    /\ seq' = [seq EXCEPT !.events = last_id]
    /\ last' = [op |-> "create_event", err |-> "none", ret |-> last_id,
                name |-> name, start_date |-> start_date,
                end_date |-> end_date, location |-> location]
    /\ UNCHANGED <<collaterals, transactions, now, logs, conn>>

\* a variant that keeps a stored field where the argument is None
\* (SET location = COALESCE(?, location), ...)
update_event_keep_null(event_id, name, start_date, end_date, location) ==
    /\ events' = [i \in DOMAIN events |->
                    IF i = event_id
                    THEN [event_name |-> name,
                          location |-> IF location = NULL
                                       THEN events[i].location ELSE location,
                          start_date |-> IF start_date = NULL
                                         THEN events[i].start_date ELSE start_date,
                          end_date |-> IF end_date = NULL
                                       THEN events[i].end_date ELSE end_date,
                          last_modified |-> now]
                    ELSE events[i]]
    /\ last' = [op |-> "update_event", err |-> "none", event_id |-> event_id,
                name |-> name, start_date |-> start_date,
                end_date |-> end_date, location |-> location]
    /\ UNCHANGED <<collaterals, transactions, seq, now, logs, conn>>

\* UPDATE events SET ... WHERE id=?; commit.  The number of rows the UPDATE
\* touched is not looked at: the call returns None whether or not a row
\* has that id.
update_event(event_id, name, start_date, end_date, location) ==
    /\ events' = [i \in DOMAIN events |->
                    IF i = event_id
                    THEN [event_name |-> name, location |-> location,
                          start_date |-> start_date, end_date |-> end_date,
                          last_modified |-> now]
                    ELSE events[i]]
    /\ last' = [op |-> "update_event", err |-> "none", event_id |-> event_id,
                name |-> name, start_date |-> start_date,
                end_date |-> end_date, location |-> location]
    /\ UNCHANGED <<collaterals, transactions, seq, now, logs, conn>>

\* DELETE FROM events WHERE id=?; commit.  No statement touches collaterals,
\* and the connection never turns PRAGMA foreign_keys on.
delete_event(event_id) ==
    /\ events' = Remove(events, {event_id})
    /\ last' = [op |-> "delete_event", err |-> "none", event_id |-> event_id]
    /\ UNCHANGED <<collaterals, transactions, seq, now, logs, conn>>

\* a variant without the ORDER BY: the rows in the order of insertion
list_events_unordered ==
    LET ids == OrderByIdDesc(DOMAIN events)
        n == Len(ids) IN
    [k \in 1..n |-> [id |-> ids[n + 1 - k],
                     event_name |-> events[ids[n + 1 - k]].event_name]]

\* SELECT id, event_name FROM events ORDER BY id DESC
list_events ==
    LET ids == OrderByIdDesc(DOMAIN events) IN
    [k \in 1..Len(ids) |-> [id |-> ids[k], event_name |-> events[ids[k]].event_name]]

\* ui.py load_events: SELECT id, event_name, location, start_date, end_date,
\* last_modified FROM events ORDER BY id DESC
load_events ==
    LET ids == OrderByIdDesc(DOMAIN events) IN
    [k \in 1..Len(ids) |->
        [id |-> ids[k], event_name |-> events[ids[k]].event_name,
         location |-> events[ids[k]].location,
         start_date |-> events[ids[k]].start_date,
         end_date |-> events[ids[k]].end_date,
         last_modified |-> events[ids[k]].last_modified]]

(***************************************************************************)
(* collaterals.py                                                          *)
(***************************************************************************)

\* a variant on a table whose id is a plain INTEGER PRIMARY KEY: the new id
\* is the largest id in the table plus one
create_collateral_rowid(item_name, quantity, event_id) ==
    LET last_id == Max(DOMAIN collaterals \cup {0}) + 1 IN
    /\ last_id <= MaxItems
    /\ collaterals' = Put(collaterals, last_id,
                          [item_name |-> item_name, quantity |-> quantity,
                           event_id |-> event_id, last_modified |-> now])
    /\ seq' = [seq EXCEPT !.collaterals = max(seq.collaterals, last_id)]
    /\ last' = [op |-> "create_collateral", err |-> "none", ret |-> last_id,
                item_name |-> item_name, quantity |-> quantity,
                event_id |-> event_id]
    /\ UNCHANGED <<events, transactions, now, logs, conn>>

\* INSERT INTO collaterals ...; commit; return cur.lastrowid
create_collateral(item_name, quantity, event_id) ==
    LET last_id == seq.collaterals + 1 IN
    /\ seq.collaterals < MaxItems
    /\ collaterals' = Put(collaterals, last_id,
                          [item_name |-> item_name, quantity |-> quantity,
                           event_id |-> event_id, last_modified |-> now])
    /\ seq' = [seq EXCEPT !.collaterals = last_id]
    /\ last' = [op |-> "create_collateral", err |-> "none", ret |-> last_id,
                item_name |-> item_name, quantity |-> quantity,
                event_id |-> event_id]
    /\ UNCHANGED <<events, transactions, now, logs, conn>>

\* a variant that leaves last_modified as it is
update_collateral_unstamped(item_id, item_name, quantity, event_id) ==
    /\ collaterals' = [i \in DOMAIN collaterals |->
                         IF i = item_id
                         THEN [item_name |-> item_name, quantity |-> quantity,
                               event_id |-> event_id,
                               last_modified |-> collaterals[i].last_modified]
                         ELSE collaterals[i]]
    /\ last' = [op |-> "update_collateral", err |-> "none", item_id |-> item_id,
                item_name |-> item_name, quantity |-> quantity,
                event_id |-> event_id]
    /\ UNCHANGED <<events, transactions, seq, now, logs, conn>>

\* a variant that floors the stored quantity at zero, as spend_collateral does
update_collateral_clamped(item_id, item_name, quantity, event_id) ==
    /\ collaterals' = [i \in DOMAIN collaterals |->
                         IF i = item_id
                         THEN [item_name |-> item_name,
                               quantity |-> max(quantity, 0),
                               event_id |-> event_id, last_modified |-> now]
                         ELSE collaterals[i]]
    /\ last' = [op |-> "update_collateral", err |-> "none", item_id |-> item_id,
                item_name |-> item_name, quantity |-> quantity,
                event_id |-> event_id]
    /\ UNCHANGED <<events, transactions, seq, now, logs, conn>>

\* UPDATE collaterals SET ... WHERE id=?; commit.  As in update_event the
\* call returns None whether or not a row has that id.
update_collateral(item_id, item_name, quantity, event_id) ==
    /\ collaterals' = [i \in DOMAIN collaterals |->
                         IF i = item_id
                         THEN [item_name |-> item_name, quantity |-> quantity,
                               event_id |-> event_id, last_modified |-> now]
                         ELSE collaterals[i]]
    /\ last' = [op |-> "update_collateral", err |-> "none", item_id |-> item_id,
                item_name |-> item_name, quantity |-> quantity,
                event_id |-> event_id]
    /\ UNCHANGED <<events, transactions, seq, now, logs, conn>>

\* a variant that also deletes the item's transactions
delete_collateral_cascade(item_id) ==
    /\ collaterals' = Remove(collaterals, {item_id})
    /\ transactions' = Remove(transactions,
            {t \in DOMAIN transactions : transactions[t].item_id = item_id})
    /\ last' = [op |-> "delete_collateral", err |-> "none", item_id |-> item_id]
    /\ UNCHANGED <<events, seq, now, logs, conn>>

\* DELETE FROM collaterals WHERE id=?; commit
delete_collateral(item_id) ==
    /\ collaterals' = Remove(collaterals, {item_id})
    /\ last' = [op |-> "delete_collateral", err |-> "none", item_id |-> item_id]
    /\ UNCHANGED <<events, transactions, seq, now, logs, conn>>

\* a variant that forgets the floor at zero
new_qty_unclamped(quantity, delta) == quantity + delta

\* new_qty = max((cur_row[0] or 0) + delta, 0)
new_qty(quantity, delta) == max(quantity + delta, 0)

\* a variant that records the change the quantity really made
new_transaction_effective(item_id, event_id, delta) ==
    [item_id |-> item_id, event_id |-> event_id,
     delta |-> IF item_id \in DOMAIN collaterals
               THEN new_qty(collaterals[item_id].quantity, delta)
                    - collaterals[item_id].quantity
               ELSE delta,
     timestamp |-> now]

\* the row spend_collateral inserts into transactions
new_transaction(item_id, event_id, delta) ==
    [item_id |-> item_id, event_id |-> event_id, delta |-> delta,
     timestamp |-> now]

\* a variant without the check for a missing row, which takes the missing
\* quantity for 0
spend_collateral_unchecked(item_id, delta, event_id) ==
    LET cur == IF item_id \in DOMAIN collaterals
               THEN collaterals[item_id].quantity ELSE 0
        q == new_qty(cur, delta)
        tx_id == seq.transactions + 1 IN
    /\ seq.transactions < MaxTx
    /\ collaterals' = [i \in DOMAIN collaterals |->
                         IF i = item_id
                         THEN [collaterals[i] EXCEPT !.quantity = q,
                                                     !.last_modified = now]
                         ELSE collaterals[i]]
    /\ transactions' = Put(transactions, tx_id,
                           new_transaction(item_id, event_id, delta))
    /\ seq' = [seq EXCEPT !.transactions = tx_id]
    /\ last' = [op |-> "spend_collateral", err |-> "none", ret |-> q,
                item_id |-> item_id, delta |-> delta, event_id |-> event_id]
    /\ UNCHANGED <<events, now, logs, conn>>

\* SELECT quantity ...; raise ValueError("Item not found") without a row;
\* else UPDATE collaterals SET quantity, last_modified; INSERT INTO
\* transactions; commit; return new_qty
spend_collateral(item_id, delta, event_id) ==
    IF item_id \notin DOMAIN collaterals
    THEN /\ last' = [op |-> "spend_collateral", err |-> "ValueError",
                     item_id |-> item_id, delta |-> delta,
                     event_id |-> event_id]
         /\ UNCHANGED <<events, collaterals, transactions, seq, now, logs, conn>>
    ELSE LET q == new_qty(collaterals[item_id].quantity, delta)
             tx_id == seq.transactions + 1 IN
         /\ seq.transactions < MaxTx
         /\ collaterals' = [collaterals EXCEPT ![item_id].quantity = q,
                                               ![item_id].last_modified = now]
         /\ transactions' = Put(transactions, tx_id,
                                new_transaction(item_id, event_id, delta))
         /\ seq' = [seq EXCEPT !.transactions = tx_id]
         /\ last' = [op |-> "spend_collateral", err |-> "none", ret |-> q,
                     item_id |-> item_id, delta |-> delta,
                     event_id |-> event_id]
         /\ UNCHANGED <<events, now, logs, conn>>

\* a variant without the filter delta<0
spends_any_delta(item_id) ==
    {t \in DOMAIN transactions : transactions[t].item_id = item_id}

\* the ids of the transactions of item_id with delta < 0
spends(item_id) ==
    {t \in DOMAIN transactions :
        transactions[t].item_id = item_id /\ transactions[t].delta < 0}

\* one row of get_item_summary: SELECT event_id, timestamp FROM transactions
\* WHERE item_id=? AND delta<0 ORDER BY id DESC LIMIT 1, else the item's
\* own last_modified and no event
summary_row(id) ==
    LET r == collaterals[id] IN
    IF spends(id) # {}
    THEN LET last_tx == transactions[Max(spends(id))] IN
         [id |-> id, item_name |-> r.item_name, quantity |-> r.quantity,
          last_event |-> last_tx.event_id, last_time |-> last_tx.timestamp]
    ELSE [id |-> id, item_name |-> r.item_name, quantity |-> r.quantity,
          last_event |-> NoId, last_time |-> r.last_modified]

\* SELECT ... FROM collaterals ORDER BY id DESC, one summary row each
get_item_summary ==
    LET ids == OrderByIdDesc(DOMAIN collaterals) IN
    [k \in 1..Len(ids) |-> summary_row(ids[k])]

\* e.event_name of the LEFT JOIN events e ON t.event_id = e.id, ev being the
\* events table
joined_event_name(ev, event_id) ==
    IF event_id \in DOMAIN ev THEN ev[event_id].event_name ELSE NULL

\* a variant with JOIN in place of LEFT JOIN: a row without a matching event
\* is dropped
select_transactions_inner_join(tx, ev, item_id) ==
    LET ids == OrderByIdDesc({t \in DOMAIN tx :
                                 /\ tx[t].item_id = item_id
                                 /\ tx[t].event_id \in DOMAIN ev}) IN
    [k \in 1..Len(ids) |->
        [id |-> ids[k], delta |-> tx[ids[k]].delta,
         timestamp |-> tx[ids[k]].timestamp,
         event_name |-> ev[tx[ids[k]].event_id].event_name]]

\* SELECT t.id, t.delta, t.timestamp, e.event_name FROM transactions t
\* LEFT JOIN events e ... WHERE t.item_id=? ORDER BY t.id DESC, tx and ev
\* being the transactions and the events table
select_transactions(tx, ev, item_id) ==
    LET ids == OrderByIdDesc({t \in DOMAIN tx : tx[t].item_id = item_id}) IN
    [k \in 1..Len(ids) |->
        [id |-> ids[k], delta |-> tx[ids[k]].delta,
         timestamp |-> tx[ids[k]].timestamp,
         event_name |-> joined_event_name(ev, tx[ids[k]].event_id)]]

\* get_transactions runs the query on the tables as they are
get_transactions(item_id) == select_transactions(transactions, events, item_id)

(***************************************************************************)
(* summary.py: show_summary runs three aggregate queries and returns their *)
(* results under the keys total_events, total_items and total_quantity.    *)
(***************************************************************************)
\* the sum of the quantity column over the rows ids of the table t
RECURSIVE sum_quantity(_, _)
sum_quantity(t, ids) ==
    IF ids = {} THEN 0
    ELSE LET i == CHOOSE x \in ids : TRUE IN
         t[i].quantity + sum_quantity(t, ids \ {i})

\* a variant that adds up only the items whose event still exists
show_summary_linked ==
    [total_events |-> Cardinality(DOMAIN events),
     total_items |-> Cardinality(DOMAIN collaterals),
     total_quantity |->
        sum_quantity(collaterals,
            {i \in DOMAIN collaterals :
                collaterals[i].event_id \in DOMAIN events})]

\* SELECT COUNT(*) FROM events; SELECT COUNT(*) FROM collaterals;
\* SELECT SUM(quantity) FROM collaterals, which is NULL for an empty table
\* and is then replaced by 0 ("or 0")
show_summary ==
    [total_events |-> Cardinality(DOMAIN events),
     total_items |-> Cardinality(DOMAIN collaterals),
     total_quantity |->
        IF DOMAIN collaterals = {} THEN 0
        ELSE sum_quantity(collaterals, DOMAIN collaterals)]

(***************************************************************************)
(* app.py: the console's delete_event.  It asks for an id and for a       *)
(* confirmation, and only for an existing event confirmed with "y" does   *)
(* it delete the event's collaterals and then the event, in one commit.   *)
(***************************************************************************)
app_delete_event(eid_i, confirm) ==
    IF DOMAIN events = {} \/ eid_i \notin DOMAIN events \/ confirm # "y"
    THEN /\ last' = [op |-> "app.delete_event", err |-> "none",
                     event_id |-> eid_i, deleted |-> FALSE]
         /\ UNCHANGED <<events, collaterals, transactions, seq, now, logs, conn>>
    ELSE /\ collaterals' = Remove(collaterals,
                {i \in DOMAIN collaterals : collaterals[i].event_id = eid_i})
         /\ events' = Remove(events, {eid_i})
         /\ last' = [op |-> "app.delete_event", err |-> "none",
                     event_id |-> eid_i, deleted |-> TRUE]
         /\ UNCHANGED <<transactions, seq, now, logs, conn>>

(***************************************************************************)
(* app.py: the console's update_quantity.  It asks for an event that has   *)
(* items, then for a collateral id and a change, reads the row of that id  *)
(* and writes the sum back; then the console's log_action adds a row to    *)
(* the table logs of data/logs.db, which the console keeps with the        *)
(* columns timestamp, action, target and description.                      *)
(***************************************************************************)
\* the call ends without a write: no events, no collaterals for the event
\* chosen, or no collateral of the id given
update_quantity_returns(sel_i, cid_i) ==
    \/ DOMAIN events = {}
    \/ \A i \in DOMAIN collaterals : collaterals[i].event_id # sel_i
    \/ cid_i \notin DOMAIN collaterals

\* INSERT INTO logs (timestamp, action, target, description)
app_log_action(action, target, description) ==
    Put(logs, Max(DOMAIN logs \cup {0}) + 1,
        [timestamp |-> now, action |-> action, target |-> target,
         description |-> description])

\* a variant that floors the new quantity at zero
app_update_quantity_clamped(sel_i, cid_i, change) ==
    IF update_quantity_returns(sel_i, cid_i)
    THEN /\ last' = [op |-> "app.update_quantity", err |-> "none",
                     sel_i |-> sel_i, cid_i |-> cid_i, change |-> change,
                     updated |-> FALSE]
         /\ UNCHANGED <<events, collaterals, transactions, seq, now, logs, conn>>
    ELSE LET current == collaterals[cid_i]
             new == new_qty(current.quantity, change) IN
         /\ Max(DOMAIN logs \cup {0}) < MaxLogs
         /\ collaterals' = [collaterals EXCEPT
                              ![cid_i].quantity = new,
                              ![cid_i].last_modified = now]
         /\ logs' = app_log_action("UPDATE", "Collateral",
                       [item_name |-> current.item_name,
                        from |-> current.quantity, to |-> new])
         /\ last' = [op |-> "app.update_quantity", err |-> "none",
                     sel_i |-> sel_i, cid_i |-> cid_i, change |-> change,
                     updated |-> TRUE]
         /\ UNCHANGED <<events, transactions, seq, now, conn>>

\* new_qty = current[1] + change;
\* UPDATE collaterals SET quantity = ?, last_modified = ? WHERE id = ?
app_update_quantity(sel_i, cid_i, change) ==
    IF update_quantity_returns(sel_i, cid_i)
    THEN /\ last' = [op |-> "app.update_quantity", err |-> "none",
                     sel_i |-> sel_i, cid_i |-> cid_i, change |-> change,
                     updated |-> FALSE]
         /\ UNCHANGED <<events, collaterals, transactions, seq, now, logs, conn>>
    ELSE LET current == collaterals[cid_i]
             new == current.quantity + change IN
         /\ Max(DOMAIN logs \cup {0}) < MaxLogs
         /\ collaterals' = [collaterals EXCEPT
                              ![cid_i].quantity = new,
                              ![cid_i].last_modified = now]
         /\ logs' = app_log_action("UPDATE", "Collateral",
                       [item_name |-> current.item_name,
                        from |-> current.quantity, to |-> new])
         /\ last' = [op |-> "app.update_quantity", err |-> "none",
                     sel_i |-> sel_i, cid_i |-> cid_i, change |-> change,
                     updated |-> TRUE]
         /\ UNCHANGED <<events, transactions, seq, now, conn>>

(***************************************************************************)
(* app.py: the console's show_summary.  Besides the three totals it reads  *)
(* the most and the least stocked item and the newest last_modified, and   *)
(* prints them.  A query with LIMIT 1 yields a sequence of at most one     *)
(* row; among rows of equal quantity sqlite is free to return any, so the  *)
(* possible results of such a query form a set.                            *)
(***************************************************************************)
\* SELECT item_name, quantity FROM collaterals ORDER BY quantity DESC LIMIT 1
most_stocked ==
    IF DOMAIN collaterals = {} THEN {<<>>}
    ELSE {<<[item_name |-> collaterals[i].item_name,
             quantity |-> collaterals[i].quantity]>> :
            i \in {j \in DOMAIN collaterals :
                     \A k \in DOMAIN collaterals :
                        collaterals[k].quantity <= collaterals[j].quantity}}

\* a variant that orders by quantity DESC here as well
least_stocked_desc == most_stocked

\* SELECT item_name, quantity FROM collaterals ORDER BY quantity ASC LIMIT 1
least_stocked ==
    IF DOMAIN collaterals = {} THEN {<<>>}
    ELSE {<<[item_name |-> collaterals[i].item_name,
             quantity |-> collaterals[i].quantity]>> :
            i \in {j \in DOMAIN collaterals :
                     \A k \in DOMAIN collaterals :
                        collaterals[k].quantity >= collaterals[j].quantity}}

\* SELECT MAX(last_modified) FROM collaterals: NULL for an empty table,
\* here the empty sequence, and printed as N/A
last_update ==
    IF DOMAIN collaterals = {} THEN <<>>
    ELSE <<Max({collaterals[i].last_modified : i \in DOMAIN collaterals})>>

\* the values show_summary prints
app_show_summary ==
    \E most \in most_stocked, least \in least_stocked :
       /\ last' = [op |-> "app.show_summary", err |-> "none",
                   ret |-> [total_events |-> Cardinality(DOMAIN events),
                            total_collateral_types |->
                               Cardinality(DOMAIN collaterals),
                            total_quantity |->
                               sum_quantity(collaterals, DOMAIN collaterals),
                            most |-> most, least |-> least,
                            last_update |-> last_update]]
       /\ UNCHANGED <<events, collaterals, transactions, seq, now, logs, conn>>

(***************************************************************************)
(* Text as the forms handle it: where the code looks into a string, the    *)
(* string is the sequence of its characters.                               *)
(***************************************************************************)
Whitespace == {" "}

\* str.strip(): the text without its leading and trailing whitespace
RECURSIVE lstrip(_)
lstrip(s) ==
    IF s # <<>> /\ Head(s) \in Whitespace THEN lstrip(Tail(s)) ELSE s

RECURSIVE rstrip(_)
rstrip(s) ==
    IF s # <<>> /\ s[Len(s)] \in Whitespace
    THEN rstrip(SubSeq(s, 1, Len(s) - 1)) ELSE s

strip(s) == rstrip(lstrip(s))

\* what a user types into a name field: nothing, blanks, a name, a padded name
NameTexts == {<<>>, <<" ">>, <<"E">>, <<" ", "E", " ">>}
LocationTexts == {<<>>, <<"H">>}

\* the dates the pickers of the event form offer, in calendar order, and the
\* ranges chosen from them, one of which ends before it starts
Calendar == <<"2025-01-01", "2025-01-02">>
FormDateRanges == DateRanges \cup {<<"2025-01-02", "2025-01-01">>}

\* datetime.strptime(d, '%Y-%m-%d'), as the position of d in the calendar
strptime(d) == CHOOSE k \in DOMAIN Calendar : Calendar[k] = d

(***************************************************************************)
(* ui.py: add_event opens the event form; its submit strips the name,      *)
(* warns and ends without a result if the name is empty or the end date    *)
(* precedes the start date, and otherwise hands name, dates and location   *)
(* (an empty location as None) to create_event.                            *)
(***************************************************************************)
ui_add_event(name_var, location_var, start_s, end_s) ==
    LET n == strip(name_var)
        l == strip(location_var) IN
    IF \/ n = <<>>
       \/ /\ start_s # NULL
          /\ end_s # NULL
          /\ strptime(end_s) < strptime(start_s)
    THEN /\ last' = [op |-> "ui.add_event", err |-> "none", ok |-> FALSE]
         /\ UNCHANGED <<events, collaterals, transactions, seq, now, logs, conn>>
    ELSE create_event(n, start_s, end_s, IF l = <<>> THEN NULL ELSE l)

(***************************************************************************)
(* ui.py: add_item asks for a name and a quantity; submit_add strips the   *)
(* name, reads the quantity as an integer, warns and ends without a        *)
(* result if the name is empty or the quantity is no integer, and          *)
(* otherwise hands both to create_collateral with the selected event.      *)
(***************************************************************************)
\* what a user types into the quantity field
QuantityTexts == {<<>>, <<"2">>, <<"-", "1">>, <<" ", "1", "0">>, <<"x">>}

DigitValue ==
    [c \in {"0", "1", "2", "3", "4", "5", "6", "7", "8", "9"} |->
        CASE c = "0" -> 0 [] c = "1" -> 1 [] c = "2" -> 2 [] c = "3" -> 3
          [] c = "4" -> 4 [] c = "5" -> 5 [] c = "6" -> 6 [] c = "7" -> 7
          [] c = "8" -> 8 [] c = "9" -> 9]

\* the digits of a text after its blanks and its sign
unsigned(s) ==
    LET t == strip(s) IN
    IF t # <<>> /\ Head(t) \in {"-", "+"} THEN Tail(t) ELSE t

\* int(s) succeeds
is_int(s) ==
    /\ unsigned(s) # <<>>
    /\ \A k \in DOMAIN unsigned(s) : unsigned(s)[k] \in DOMAIN DigitValue

RECURSIVE digits_value(_)
digits_value(d) ==
    IF d = <<>> THEN 0
    ELSE 10 * digits_value(SubSeq(d, 1, Len(d) - 1)) + DigitValue[d[Len(d)]]

\* int(s), where it succeeds
int(s) ==
    IF Head(strip(s)) = "-" THEN 0 - digits_value(unsigned(s))
    ELSE digits_value(unsigned(s))

ui_add_item(name_var, qty_var, selected_event_id) ==
    LET n == strip(name_var) IN
    IF n = <<>> \/ ~is_int(qty_var)
    THEN /\ last' = [op |-> "ui.add_item", err |-> "none", ok |-> FALSE]
         /\ UNCHANGED <<events, collaterals, transactions, seq, now, logs, conn>>
    ELSE create_collateral(n, int(qty_var), selected_event_id)

(***************************************************************************)
(* Event search.  search_events of events.py filters on the name with      *)
(* LIKE; the console's search_events of app.py adds to that filter one on  *)
(* the start date and one on the end date, each applied only if its input  *)
(* is not empty, and has no ORDER BY.                                      *)
(***************************************************************************)
UpperCase == <<"A", "B", "C", "D", "E", "F", "G", "H", "I", "J", "K", "L", "M",
               "N", "O", "P", "Q", "R", "S", "T", "U", "V", "W", "X", "Y", "Z">>
LowerCase == <<"a", "b", "c", "d", "e", "f", "g", "h", "i", "j", "k", "l", "m",
               "n", "o", "p", "q", "r", "s", "t", "u", "v", "w", "x", "y", "z">>

\* the character as LIKE compares it: ASCII letters without their case
lower(c) ==
    IF \E k \in DOMAIN UpperCase : UpperCase[k] = c
    THEN LowerCase[CHOOSE k \in DOMAIN UpperCase : UpperCase[k] = c]
    ELSE c

\* text LIKE pattern: % stands for any characters, also none, _ for exactly
\* one character, any other character for itself in either case
RECURSIVE like(_, _)
like(text, pattern) ==
    IF pattern = <<>> THEN text = <<>>
    ELSE IF Head(pattern) = "%"
         THEN \/ like(text, Tail(pattern))
              \/ text # <<>> /\ like(Tail(text), pattern)
    ELSE IF text = <<>> THEN FALSE
    ELSE IF Head(pattern) = "_" THEN like(Tail(text), Tail(pattern))
    ELSE /\ lower(Head(text)) = lower(Head(pattern))
         /\ like(Tail(text), Tail(pattern))

\* the date texts in the order in which sqlite compares strings
DateTexts == <<"2025-01-01", "2025-01-02", "2025-01-03">>

\* a >= b on texts; a comparison with NULL is not true
text_geq(a, b) ==
    /\ a # NULL
    /\ b # NULL
    /\ (CHOOSE k \in DOMAIN DateTexts : DateTexts[k] = a)
          >= (CHOOSE k \in DOMAIN DateTexts : DateTexts[k] = b)

\* events.py: SELECT id, event_name FROM events WHERE event_name LIKE ?
\* ORDER BY id DESC, with the parameter f"%{term}%"
search_events(term) ==
    LET ids == OrderByIdDesc({e \in DOMAIN events :
                   like(events[e].event_name, <<"%">> \o term \o <<"%">>)}) IN
    [k \in 1..Len(ids) |->
        [id |-> ids[k], event_name |-> events[ids[k]].event_name]]

call_search_events(term) ==
    /\ last' = [op |-> "search_events", err |-> "none", term |-> term,
                ret |-> search_events(term)]
    /\ UNCHANGED <<events, collaterals, transactions, seq, now, logs, conn>>

\* app.py: the three inputs are stripped; "" skips a filter.  The rows
\* printed, as the set of their ids.
app_search_events(term_in, start, end) ==
    LET term == strip(term_in) IN
    /\ last' = [op |-> "app.search_events", err |-> "none",
                term |-> term, start |-> start, end |-> end,
                ret |-> {e \in DOMAIN events :
                    /\ term # <<>> =>
                          like(events[e].event_name,
                               <<"%">> \o term \o <<"%">>)
                    /\ start # "" => text_geq(events[e].start_date, start)
                    /\ end # "" => text_geq(end, events[e].end_date)}]
    /\ UNCHANGED <<events, collaterals, transactions, seq, now, logs, conn>>

(***************************************************************************)
(* Calls taken statement by statement.  A process runs a call on its own   *)
(* connection.  A SELECT reads the committed tables.  The first writing    *)
(* statement opens a transaction and takes the write lock of the database  *)
(* file, which one connection at a time can hold; what the connection      *)
(* writes is kept in conn, out of sight of the others, and commit moves    *)
(* it into the tables.  A connection that has to wait for the lock for     *)
(* longer than the busy timeout fails with OperationalError.  A process    *)
(* interrupted in the middle of a call loses its connection, and sqlite    *)
(* rolls back what was not committed.                                      *)
(***************************************************************************)
holds_write_lock(p) ==
    conn[p].pc \in {"updated", "inserted", "children_deleted", "event_deleted"}

lock_is_free(p) == \A q \in Procs \ {p} : ~holds_write_lock(q)

\* a call taken in one step writes and commits at once, which it can only
\* do while no connection holds the write lock
no_writer == \A q \in Procs : ~holds_write_lock(q)

\* spend_collateral: SELECT quantity FROM collaterals WHERE id=?; without a
\* row the call closes the connection and raises ValueError
spend_select(p, item_id, delta, event_id) ==
    /\ conn[p] = Idle
    /\ IF item_id \notin DOMAIN collaterals
       THEN /\ last' = [op |-> "spend_collateral", err |-> "ValueError",
                        item_id |-> item_id, delta |-> delta,
                        event_id |-> event_id]
            /\ UNCHANGED conn
       ELSE /\ conn' = [conn EXCEPT ![p] =
                          [pc |-> "selected", item_id |-> item_id,
                           delta |-> delta, event_id |-> event_id,
                           cur_row |-> collaterals[item_id].quantity]]
            /\ UNCHANGED last
    /\ UNCHANGED <<events, collaterals, transactions, seq, now, logs>>

\* a variant whose UPDATE adds the delta to the quantity stored at that
\* moment: SET quantity = MAX(quantity + ?, 0)
spend_update_relative(p) ==
    /\ conn[p].pc = "selected"
    /\ lock_is_free(p)
    /\ LET c == conn[p] IN
       conn' = [conn EXCEPT ![p] =
          [pc |-> "updated", item_id |-> c.item_id, delta |-> c.delta,
           event_id |-> c.event_id, cur_row |-> c.cur_row,
           new_qty |-> new_qty(c.cur_row, c.delta),
           collaterals |->
              [i \in DOMAIN collaterals |->
                 IF i = c.item_id
                 THEN [collaterals[i] EXCEPT
                         !.quantity = new_qty(collaterals[i].quantity, c.delta),
                         !.last_modified = now]
                 ELSE collaterals[i]]]]
    /\ UNCHANGED <<events, collaterals, transactions, seq, now, last, logs>>

\* a variant on a connection in autocommit mode: the UPDATE is committed at
\* once
spend_update_autocommit(p) ==
    /\ conn[p].pc = "selected"
    /\ lock_is_free(p)
    /\ LET c == conn[p]
           written ==
              [i \in DOMAIN collaterals |->
                 IF i = c.item_id
                 THEN [collaterals[i] EXCEPT
                         !.quantity = new_qty(c.cur_row, c.delta),
                         !.last_modified = now]
                 ELSE collaterals[i]] IN
       /\ collaterals' = written
       /\ conn' = [conn EXCEPT ![p] =
             [pc |-> "updated", item_id |-> c.item_id, delta |-> c.delta,
              event_id |-> c.event_id, cur_row |-> c.cur_row,
              new_qty |-> new_qty(c.cur_row, c.delta),
              collaterals |-> written]]
    /\ UNCHANGED <<events, transactions, seq, now, last, logs>>

\* new_qty = max((cur_row[0] or 0) + delta, 0);
\* UPDATE collaterals SET quantity=?, last_modified=? WHERE id=?
spend_update(p) ==
    /\ conn[p].pc = "selected"
    /\ lock_is_free(p)
    /\ LET c == conn[p] IN
       conn' = [conn EXCEPT ![p] =
          [pc |-> "updated", item_id |-> c.item_id, delta |-> c.delta,
           event_id |-> c.event_id, cur_row |-> c.cur_row,
           new_qty |-> new_qty(c.cur_row, c.delta),
           collaterals |->
              [i \in DOMAIN collaterals |->
                 IF i = c.item_id
                 THEN [collaterals[i] EXCEPT
                         !.quantity = new_qty(c.cur_row, c.delta),
                         !.last_modified = now]
                 ELSE collaterals[i]]]]
    /\ UNCHANGED <<events, collaterals, transactions, seq, now, last, logs>>

\* the UPDATE waits for the write lock until the busy timeout has passed
spend_busy(p) ==
    /\ conn[p].pc = "selected"
    /\ ~lock_is_free(p)
    /\ conn' = [conn EXCEPT ![p] = Idle]
    /\ last' = [op |-> "spend_collateral", err |-> "OperationalError",
                item_id |-> conn[p].item_id, delta |-> conn[p].delta,
                event_id |-> conn[p].event_id]
    /\ UNCHANGED <<events, collaterals, transactions, seq, now, logs>>

\* INSERT INTO transactions (item_id, event_id, delta, timestamp)
spend_insert(p) ==
    /\ conn[p].pc = "updated"
    /\ seq.transactions < MaxTx
    /\ LET c == conn[p] IN
       conn' = [conn EXCEPT ![p] =
          [pc |-> "inserted", item_id |-> c.item_id, delta |-> c.delta,
           event_id |-> c.event_id, cur_row |-> c.cur_row,
           new_qty |-> c.new_qty, collaterals |-> c.collaterals,
           transactions |->
              Put(transactions, seq.transactions + 1,
                  new_transaction(c.item_id, c.event_id, c.delta)),
           seq |-> [seq EXCEPT !.transactions = seq.transactions + 1]]]
    /\ UNCHANGED <<events, collaterals, transactions, seq, now, last, logs>>

\* conn.commit(); conn.close(); return new_qty
spend_commit(p) ==
    /\ conn[p].pc = "inserted"
    /\ collaterals' = conn[p].collaterals
    /\ transactions' = conn[p].transactions
    /\ seq' = conn[p].seq
    /\ conn' = [conn EXCEPT ![p] = Idle]
    /\ last' = [op |-> "spend_collateral", err |-> "none",
                item_id |-> conn[p].item_id, delta |-> conn[p].delta,
                event_id |-> conn[p].event_id, ret |-> conn[p].new_qty]
    /\ UNCHANGED <<events, now, logs>>

\* app.py delete_event: SELECT event_name FROM events WHERE id = ?; the
\* call ends without a write when there is no such event or the answer to
\* the confirmation is not "y"
app_delete_select(p, eid_i, confirm) ==
    /\ conn[p] = Idle
    /\ IF eid_i \notin DOMAIN events \/ confirm # "y"
       THEN /\ last' = [op |-> "app.delete_event", err |-> "none",
                        event_id |-> eid_i, deleted |-> FALSE]
            /\ UNCHANGED conn
       ELSE /\ conn' = [conn EXCEPT ![p] =
                          [pc |-> "confirmed", eid_i |-> eid_i]]
            /\ UNCHANGED last
    /\ UNCHANGED <<events, collaterals, transactions, seq, now, logs>>

\* a variant on a connection in autocommit mode: the DELETE of the
\* collaterals is committed at once
app_delete_children_autocommit(p) ==
    /\ conn[p].pc = "confirmed"
    /\ lock_is_free(p)
    /\ LET written ==
              Remove(collaterals,
                     {i \in DOMAIN collaterals :
                         collaterals[i].event_id = conn[p].eid_i}) IN
       /\ collaterals' = written
       /\ conn' = [conn EXCEPT ![p] =
             [pc |-> "children_deleted", eid_i |-> conn[p].eid_i,
              collaterals |-> written]]
    /\ UNCHANGED <<events, transactions, seq, now, last, logs>>

\* DELETE FROM collaterals WHERE event_id = ?
app_delete_children(p) ==
    /\ conn[p].pc = "confirmed"
    /\ lock_is_free(p)
    /\ conn' = [conn EXCEPT ![p] =
          [pc |-> "children_deleted", eid_i |-> conn[p].eid_i,
           collaterals |->
              Remove(collaterals,
                     {i \in DOMAIN collaterals :
                         collaterals[i].event_id = conn[p].eid_i})]]
    /\ UNCHANGED <<events, collaterals, transactions, seq, now, last, logs>>

\* the DELETE waits for the write lock until the busy timeout has passed
app_delete_busy(p) ==
    /\ conn[p].pc = "confirmed"
    /\ ~lock_is_free(p)
    /\ conn' = [conn EXCEPT ![p] = Idle]
    /\ last' = [op |-> "app.delete_event", err |-> "OperationalError",
                event_id |-> conn[p].eid_i, deleted |-> FALSE]
    /\ UNCHANGED <<events, collaterals, transactions, seq, now, logs>>

\* DELETE FROM events WHERE id = ?
app_delete_parent(p) ==
    /\ conn[p].pc = "children_deleted"
    /\ conn' = [conn EXCEPT ![p] =
          [pc |-> "event_deleted", eid_i |-> conn[p].eid_i,
           collaterals |-> conn[p].collaterals,
           events |-> Remove(events, {conn[p].eid_i})]]
    /\ UNCHANGED <<events, collaterals, transactions, seq, now, last, logs>>

\* conn.commit(); conn.close()
app_delete_commit(p) ==
    /\ conn[p].pc = "event_deleted"
    /\ collaterals' = conn[p].collaterals
    /\ events' = conn[p].events
    /\ conn' = [conn EXCEPT ![p] = Idle]
    /\ last' = [op |-> "app.delete_event", err |-> "none",
                event_id |-> conn[p].eid_i, deleted |-> TRUE]
    /\ UNCHANGED <<transactions, seq, now, logs>>

\* the process is interrupted in the middle of its call
interrupt(p) ==
    /\ conn[p] # Idle
    /\ conn' = [conn EXCEPT ![p] = Idle]
    /\ last' = [op |-> "interrupt", err |-> "none", pc |-> conn[p].pc]
    /\ UNCHANGED <<events, collaterals, transactions, seq, now, logs>>

(***************************************************************************)
(* logs.py: the activity log.  Both functions create the table if it is    *)
(* missing.  No function deletes a log row, so the AUTOINCREMENT id of a   *)
(* new row is the largest id in the table plus one.                        *)
(***************************************************************************)
\* INSERT INTO logs (when_ts, actor, action, details); return cur.lastrowid
log_action(actor, action, details) ==
    LET lid == Max(DOMAIN logs \cup {0}) + 1 IN
    /\ lid <= MaxLogs
    /\ logs' = Put(logs, lid, [when_ts |-> now, actor |-> actor,
                               action |-> action, details |-> details])
    /\ last' = [op |-> "log_action", err |-> "none", ret |-> lid,
                actor |-> actor, action |-> action, details |-> details]
    /\ UNCHANGED <<events, collaterals, transactions, seq, now, conn>>

\* the log rows of the given ids, in that order
log_rows(ids) ==
    [k \in 1..Len(ids) |->
        [id |-> ids[k], when_ts |-> logs[ids[k]].when_ts,
         actor |-> logs[ids[k]].actor, action |-> logs[ids[k]].action,
         details |-> logs[ids[k]].details]]

\* a variant with ORDER BY id ASC: the oldest rows first
view_logs_oldest_first(limit) ==
    LET ids == OrderByIdDesc(DOMAIN logs)
        n == Len(ids)
        asc == [k \in 1..n |-> ids[n + 1 - k]] IN
    log_rows(IF limit < 0 \/ limit >= n THEN asc ELSE SubSeq(asc, 1, limit))

\* SELECT id, when_ts, actor, action, details FROM logs ORDER BY id DESC
\* LIMIT ?, where sqlite takes a negative LIMIT as no limit
view_logs(limit) ==
    LET ids == OrderByIdDesc(DOMAIN logs) IN
    log_rows(IF limit < 0 \/ limit >= Len(ids) THEN ids
             ELSE SubSeq(ids, 1, limit))

call_view_logs(limit) ==
    /\ last' = [op |-> "view_logs", err |-> "none", limit |-> limit,
                ret |-> view_logs(limit)]
    /\ UNCHANGED <<events, collaterals, transactions, seq, now, logs, conn>>

(***************************************************************************)
(* The clock: a second passes between two calls.                           *)
(***************************************************************************)
Tick ==
    /\ now < MaxTime
    /\ now' = now + 1
    /\ UNCHANGED <<events, collaterals, transactions, seq, last, logs, conn>>

(***************************************************************************)
(* The read operations, as calls: they run SELECT statements only.  What   *)
(* they return is list_events, get_item_summary and get_transactions.      *)
(***************************************************************************)
call_list_events ==
    /\ last' = [op |-> "list_events", err |-> "none"]
    /\ UNCHANGED <<events, collaterals, transactions, seq, now, logs, conn>>

call_get_item_summary ==
    /\ last' = [op |-> "get_item_summary", err |-> "none"]
    /\ UNCHANGED <<events, collaterals, transactions, seq, now, logs, conn>>

call_get_transactions(item_id) ==
    /\ last' = [op |-> "get_transactions", err |-> "none", item_id |-> item_id]
    /\ UNCHANGED <<events, collaterals, transactions, seq, now, logs, conn>>

(***************************************************************************)
(* SpecLedger: quantity adjustment.  Items of one name are created,        *)
(* adjusted without an event tag, and deleted.                             *)
(***************************************************************************)
NextLedger ==
    \/ \E q \in Quantities : create_collateral("Banner", q, NoId)
    \/ \E i \in ItemIdArgs, d \in Deltas : spend_collateral(i, d, NoId)
    \/ \E i \in ItemIdArgs : delete_collateral(i)

SpecLedger == Init /\ [][NextLedger]_vars

\* the call made last was spend_collateral and it returned
Spent == last.op = "spend_collateral" /\ last.err = "none"

\* the ids of the transactions recorded for item i
tx_of(i) == {t \in DOMAIN transactions : transactions[t].item_id = i}

(***************************************************************************)
(* C1: for an existing item with stored quantity q and any delta d,        *)
(* spend_collateral(id, d) succeeds, returns max(q + d, 0), and the        *)
(* quantity stored for the item afterwards is the returned value.          *)
(***************************************************************************)
C1_AdjustReturnsClampedSum ==
    [][\A i \in ItemIdArgs :
          (last'.op = "spend_collateral" /\ last'.item_id = i
              /\ i \in DOMAIN collaterals)
          => /\ last'.err = "none"
             /\ last'.ret = (IF collaterals[i].quantity + last'.delta >= 0
                             THEN collaterals[i].quantity + last'.delta ELSE 0)
             /\ i \in DOMAIN collaterals'
             /\ collaterals'[i].quantity = last'.ret]_vars

\* an overspend was clamped: the call returned 0 and 0 is stored
C1_Witness ==
    /\ Spent /\ last.delta = -3 /\ last.ret = 0
    /\ collaterals[last.item_id].quantity = 0

(***************************************************************************)
(* C2: after a successful spend_collateral(id, d, event) the rows of       *)
(* get_transactions(id) are the rows before it with one new row in front,  *)
(* and the new row's delta is the requested d, not the clamped change.     *)
(* (after is get_transactions(id) in the state the call leaves.)           *)
(***************************************************************************)
C2_NewestRowHasRequestedDelta ==
    [][\A i \in ItemIdArgs :
          (last'.op = "spend_collateral" /\ last'.err = "none"
              /\ last'.item_id = i)
          => LET before == get_transactions(i)
                 after == select_transactions(transactions', events', i) IN
             /\ Len(after) = Len(before) + 1
             /\ Tail(after) = before
             /\ after[1].delta = last'.delta
             /\ \A k \in 2..Len(after) : after[k].id < after[1].id]_vars

\* two overspends in a row: the second changed the quantity by 0 and its
\* row says -3
C2_Witness ==
    /\ Spent /\ last.delta = -3 /\ last.ret = 0
    /\ Len(get_transactions(last.item_id)) = 2
    /\ get_transactions(last.item_id)[1].delta = -3
    /\ get_transactions(last.item_id)[2].delta = -3

(***************************************************************************)
(* C3: the quantity get_item_summary reports for an item is never below 0  *)
(* after spend_collateral has adjusted it, however often and by whatever   *)
(* delta (here nothing but spend_collateral changes a quantity).           *)
(***************************************************************************)
C3_AdjustedQuantityNeverNegative ==
    \A k \in DOMAIN get_item_summary :
        (tx_of(get_item_summary[k].id) # {}
            \/ (Spent /\ last.item_id = get_item_summary[k].id))
        => get_item_summary[k].quantity >= 0

\* an item overspent twice is reported with quantity 0
C3_Witness ==
    \E k \in DOMAIN get_item_summary :
        /\ get_item_summary[k].quantity = 0
        /\ Cardinality({t \in tx_of(get_item_summary[k].id) :
                            transactions[t].delta = -3}) = 2

(***************************************************************************)
(* C6: spend_collateral on an id that is no item raises the not-found      *)
(* error (ValueError "Item not found"), changes no quantity and appends    *)
(* no transaction.                                                         *)
(***************************************************************************)
C6_AdjustMissingItemFails ==
    [][(last'.op = "spend_collateral" /\ last'.item_id \notin DOMAIN collaterals)
          => /\ last'.err = "ValueError"
             /\ collaterals' = collaterals
             /\ transactions' = transactions]_vars

\* the call failed on an id that had been an item with a history
C6_Witness ==
    /\ last.op = "spend_collateral" /\ last.err = "ValueError"
    /\ last.item_id \notin DOMAIN collaterals
    /\ tx_of(last.item_id) # {}

(***************************************************************************)
(* SpecItems: the item records.  Items of two names are created with or    *)
(* without a link to event 1, overwritten, deleted, and spent or           *)
(* restocked by 1 at event 1.                                              *)
(***************************************************************************)
NextItems ==
    \/ \E n \in ItemNames, q \in {0, 2} : create_collateral(n, q, 1)
    \/ \E i \in ItemIdArgs : delete_collateral(i)
    \/ \E i \in ItemIdArgs, d \in {-1, 1} : spend_collateral(i, d, 1)

SpecItems == Init /\ [][NextItems]_vars

\* the positions of the rows of get_item_summary with this name and quantity
summary_rows_named(item_name, quantity) ==
    {k \in DOMAIN get_item_summary :
        /\ get_item_summary[k].item_name = item_name
        /\ get_item_summary[k].quantity = quantity}

\* item i has no transaction with delta < 0
no_spend(i) ==
    \A t \in DOMAIN transactions :
        ~(transactions[t].item_id = i /\ transactions[t].delta < 0)

(***************************************************************************)
(* C7, as stated: after create_collateral(name, quantity, event) the       *)
(* summary has exactly one row with that name and quantity, and its        *)
(* last_event is null while the item has no spend.                         *)
(***************************************************************************)
C7_Original_OneRowWithNameAndQuantity ==
    last.op = "create_collateral"
    => /\ Cardinality(summary_rows_named(last.item_name, last.quantity)) = 1
       /\ \A k \in summary_rows_named(last.item_name, last.quantity) :
              no_spend(get_item_summary[k].id)
              => get_item_summary[k].last_event = NoId

(***************************************************************************)
(* C7, amended: after create_collateral(name, quantity, event) the summary *)
(* has exactly one row with the returned id, and that row has the name and *)
(* the quantity given (an older item may have the same name and            *)
(* quantity); and in every state a row's last_event is null as long as the *)
(* item has no transaction with delta < 0.                                 *)
(***************************************************************************)
C7_OneRowWithReturnedId ==
    /\ last.op = "create_collateral"
       => /\ Cardinality({k \in DOMAIN get_item_summary :
                              get_item_summary[k].id = last.ret}) = 1
          /\ \A k \in DOMAIN get_item_summary :
                 get_item_summary[k].id = last.ret
                 => /\ get_item_summary[k].item_name = last.item_name
                    /\ get_item_summary[k].quantity = last.quantity
    /\ \A k \in DOMAIN get_item_summary :
           no_spend(get_item_summary[k].id)
           => get_item_summary[k].last_event = NoId

\* a second item was created with the name and quantity of the first, and
\* the first has been restocked at event 1 but never spent
C7_Witness ==
    /\ last.op = "create_collateral"
    /\ Len(get_item_summary) = 2
    /\ get_item_summary[1].id = last.ret
    /\ get_item_summary[2].item_name = last.item_name
    /\ get_item_summary[2].quantity = last.quantity
    /\ tx_of(get_item_summary[2].id) # {}
    /\ no_spend(get_item_summary[2].id)

(***************************************************************************)
(* SpecEvents: the event directory.  Events are created, overwritten and   *)
(* deleted with every combination of name, dates and location.             *)
(***************************************************************************)
NextEvents ==
    \/ \E n \in EventNames, d \in DateRanges, l \in Locations :
          create_event(n, d[1], d[2], l)
    \/ \E i \in EventIdArgs, n \in EventNames, d \in DateRanges,
          l \in Locations : update_event(i, n, d[1], d[2], l)
    \/ \E i \in EventIdArgs : delete_event(i)

SpecEvents == Init /\ [][NextEvents]_vars

\* the call made last was update_event on an id that is an event
UpdatedEvent == last.op = "update_event" /\ last.event_id \in DOMAIN events

C9_UpdateMissingEventFails ==
    [][(last'.op = "update_event" /\ last'.event_id \notin DOMAIN events)
          => /\ last'.err = "NotFoundError"
             /\ store' = store]_vars

(***************************************************************************)
(* C20: list_events returns every existing event exactly once, with its    *)
(* name, the rows ordered by id descending.                                *)
(***************************************************************************)
C20_ListEventsAllOnceNewestFirst ==
    /\ Len(list_events) = Cardinality(DOMAIN events)
    /\ {list_events[k].id : k \in DOMAIN list_events} = DOMAIN events
    /\ \A k \in DOMAIN list_events :
          /\ list_events[k].event_name = events[list_events[k].id].event_name
          /\ k > 1 => list_events[k - 1].id > list_events[k].id

\* two events are listed, the one created later first
C20_Witness ==
    /\ Len(list_events) >= 2
    /\ list_events[1].id > list_events[2].id
    /\ list_events[1].event_name # list_events[2].event_name

(***************************************************************************)
(* SpecAll: every operation on the three tables, each with few inputs.     *)
(***************************************************************************)
NextAll ==
    \/ create_event("Expo", NULL, NULL, NULL)
    \/ \E e \in EventIdArgs : update_event(e, "Gala", NULL, NULL, "Hall")
    \/ \E e \in EventIdArgs : delete_event(e)
    \/ \E e \in EventIdArgs : app_delete_event(e, "y")
    \/ create_collateral("Banner", 2, 1)
    \/ \E i \in ItemIdArgs : update_collateral(i, "Banner", 0, 1)
    \/ \E i \in ItemIdArgs : delete_collateral(i)
    \/ \E i \in ItemIdArgs : spend_collateral(i, -3, 1)
    \/ call_list_events
    \/ call_get_item_summary
    \/ \E i \in ItemIdArgs : call_get_transactions(i)

SpecAll == Init /\ [][NextAll]_vars

(***************************************************************************)
(* C5: the transaction history is append-only and only spend_collateral    *)
(* appends to it: every other operation, reads included, leaves the set of *)
(* transaction rows as it is, and no operation changes or removes a row.   *)
(***************************************************************************)
C5_TransactionsAppendOnly ==
    [][/\ last'.op # "spend_collateral" => transactions' = transactions
       /\ \A t \in DOMAIN transactions :
             /\ t \in DOMAIN transactions'
             /\ transactions'[t] = transactions[t]
       /\ transactions' # transactions
          => Cardinality(DOMAIN transactions')
                = Cardinality(DOMAIN transactions) + 1]_vars

\* the history of an item outlives the item and the event it names
C5_Witness ==
    /\ last.op = "delete_collateral"
    /\ \E t \in DOMAIN transactions :
          /\ transactions[t].item_id = last.item_id
          /\ transactions[t].item_id \notin DOMAIN collaterals
          /\ transactions[t].event_id \notin DOMAIN events

(***************************************************************************)
(* SpecCascade: events and the items linked to them.                       *)
(***************************************************************************)
NextCascade ==
    \/ \E n \in EventNames : create_event(n, NULL, NULL, NULL)
    \/ \E e \in EventIdArgs : delete_event(e)
    \/ \E e \in EventIdArgs, c \in {"y", "n"} : app_delete_event(e, c)
    \/ \E n \in ItemNames, e \in EventRefs : create_collateral(n, 2, e)
    \/ \E i \in ItemIdArgs : delete_collateral(i)

SpecCascade == Init /\ [][NextCascade]_vars

(***************************************************************************)
(* C4: deleting an existing event id removes the event and every item     *)
(* whose event_id is id: afterwards list_events has no row for id and      *)
(* get_item_summary has no row for an item that was linked to id.  This    *)
(* is said of both ways to delete an event, delete_event of events.py and  *)
(* the console's delete_event of app.py.                                   *)
(***************************************************************************)
C4_DeleteEventCascades ==
    [][\A e \in DOMAIN events :
          (/\ \/ last'.op = "delete_event"
              \/ (last'.op = "app.delete_event" /\ last'.deleted)
           /\ last'.event_id = e)
          => /\ \A k \in DOMAIN list_events' : list_events'[k].id # e
             /\ \A i \in DOMAIN collaterals :
                   collaterals[i].event_id = e
                   => \A k \in DOMAIN get_item_summary' :
                          get_item_summary'[k].id # i]_vars

(***************************************************************************)
(* SpecItemEdits: items created, overwritten and deleted.                  *)
(***************************************************************************)
NextItemEdits ==
    \/ \E n \in ItemNames, q \in Quantities, e \in {NoId, 1} :
          create_collateral(n, q, e)
    \/ \E i \in ItemIdArgs, n \in ItemNames, q \in Quantities, e \in {NoId, 1} :
          update_collateral(i, n, q, e)
    \/ \E i \in ItemIdArgs : delete_collateral(i)

SpecItemEdits == Init /\ [][NextItemEdits]_vars

(***************************************************************************)
(* C10: update_collateral on an id that is no item fails with              *)
(* NotFoundError and leaves the store unchanged.                           *)
(***************************************************************************)
C10_UpdateMissingItemFails ==
    [][(last'.op = "update_collateral"
           /\ last'.item_id \notin DOMAIN collaterals)
          => /\ last'.err = "NotFoundError"
             /\ store' = store]_vars

(***************************************************************************)
(* SpecOverwrite: items whose quantity is overwritten by update_collateral *)
(* between the spends that spend_collateral records.                       *)
(***************************************************************************)
NextOverwrite ==
    \/ create_collateral("Banner", 2, NoId)
    \/ \E i \in ItemIdArgs, q \in Quantities :
          update_collateral(i, "Banner", q, NoId)
    \/ \E i \in ItemIdArgs : spend_collateral(i, -1, NoId)

SpecOverwrite == Init /\ [][NextOverwrite]_vars

(***************************************************************************)
(* C13: update_collateral on an existing item stores the given quantity    *)
(* exactly as given, a negative one included, and appends no transaction   *)
(* row: the transaction table is after the call what it was before.        *)
(***************************************************************************)
C13_UpdateStoresQuantityAsGiven ==
    [][(last'.op = "update_collateral" /\ last'.item_id \in DOMAIN collaterals)
          => /\ last'.item_id \in DOMAIN collaterals'
             /\ collaterals'[last'.item_id].quantity = last'.quantity
             /\ transactions' = transactions]_vars

\* an item with a recorded spend is overwritten with a negative quantity
C13_Witness ==
    /\ last.op = "update_collateral"
    /\ last.item_id \in DOMAIN collaterals
    /\ last.quantity < 0
    /\ collaterals[last.item_id].quantity = last.quantity
    /\ \E t \in DOMAIN transactions : transactions[t].item_id = last.item_id

(***************************************************************************)
(* SpecHistory: spends tagged with no event, with an event that exists,    *)
(* with one that was deleted and with one that was never created.          *)
(***************************************************************************)
NextHistory ==
    \/ create_event("Expo", NULL, NULL, NULL)
    \/ \E e \in EventIds : delete_event(e)
    \/ create_collateral("Banner", 2, NoId)
    \/ \E i \in ItemIdArgs : delete_collateral(i)
    \/ \E i \in ItemIdArgs, e \in {NoId, 1} : spend_collateral(i, -1, e)
    \/ \E i \in ItemIdArgs : call_get_transactions(i)

SpecHistory == Init /\ [][NextHistory]_vars

(***************************************************************************)
(* C16: get_transactions(item_id) returns exactly the transaction rows     *)
(* with that item_id, each once with its delta and timestamp, ordered by   *)
(* transaction id descending.  A row whose event_id is null or names no    *)
(* existing event is returned like the others, with a null event name;     *)
(* the call raises nothing.                                                *)
(***************************************************************************)
C16_HistoryOfItemNewestFirst ==
    \A i \in ItemIdArgs :
       LET rows == get_transactions(i)
           T == {t \in DOMAIN transactions : transactions[t].item_id = i} IN
       /\ Len(rows) = Cardinality(T)
       /\ {rows[k].id : k \in DOMAIN rows} = T
       /\ \A k \in DOMAIN rows :
             LET t == transactions[rows[k].id] IN
             /\ k > 1 => rows[k - 1].id > rows[k].id
             /\ rows[k].delta = t.delta
             /\ rows[k].timestamp = t.timestamp
             /\ rows[k].event_name =
                   IF t.event_id \in DOMAIN events
                   THEN events[t.event_id].event_name ELSE NULL

\* the history read is that of a deleted item: its newer row names a deleted
\* event, its older row no event
C16_Witness ==
    /\ last.op = "get_transactions"
    /\ last.item_id \notin DOMAIN collaterals
    /\ seq.events > 0
    /\ LET rows == get_transactions(last.item_id) IN
       /\ Len(rows) = 2
       /\ transactions[rows[1].id].event_id = 1
       /\ 1 \notin DOMAIN events
       /\ rows[1].event_name = NULL
       /\ transactions[rows[2].id].event_id = NoId
       /\ rows[2].event_name = NULL

(***************************************************************************)
(* C14: delete_collateral(id) removes the item row with that id and        *)
(* nothing else: every transaction row with item_id = id is still there,   *)
(* unchanged, and get_transactions(id) returns what it returned before;    *)
(* every other item and every event is as it was.                          *)
(***************************************************************************)
C14_DeleteItemKeepsHistory ==
    [][last'.op = "delete_collateral"
          => /\ DOMAIN collaterals' = DOMAIN collaterals \ {last'.item_id}
             /\ \A j \in DOMAIN collaterals' : collaterals'[j] = collaterals[j]
             /\ \A t \in DOMAIN transactions :
                   transactions[t].item_id = last'.item_id
                   => /\ t \in DOMAIN transactions'
                      /\ transactions'[t] = transactions[t]
             /\ select_transactions(transactions', events', last'.item_id)
                   = select_transactions(transactions, events, last'.item_id)
             /\ events' = events]_vars

\* an item with history was deleted while another item and an event exist
C14_Witness ==
    /\ last.op = "delete_collateral"
    /\ last.item_id \notin DOMAIN collaterals
    /\ Len(get_transactions(last.item_id)) = 2
    /\ DOMAIN collaterals # {}
    /\ DOMAIN events # {}

\* the quantities of the items with an id up to n, added up id by id
RECURSIVE quantity_up_to(_)
quantity_up_to(n) ==
    IF n = 0 THEN 0
    ELSE quantity_up_to(n - 1)
           + (IF n \in DOMAIN collaterals THEN collaterals[n].quantity ELSE 0)

(***************************************************************************)
(* C18: after any sequence of create, update, delete and adjust calls,     *)
(* show_summary reports as total_events the number of event rows, as       *)
(* total_items the number of item rows and as total_quantity the sum of    *)
(* the quantities of all item rows, which is 0 when there is no item.      *)
(***************************************************************************)
C18_SummaryTotals ==
    /\ show_summary.total_events = Cardinality(DOMAIN events)
    /\ show_summary.total_items = Cardinality(DOMAIN collaterals)
    /\ show_summary.total_quantity = quantity_up_to(seq.collaterals)
    /\ DOMAIN collaterals = {} => show_summary.total_quantity = 0

\* two items are counted, one of them emptied, after their event was deleted
C18_Witness ==
    /\ show_summary.total_events = 0
    /\ show_summary.total_items = 2
    /\ show_summary.total_quantity = 2
    /\ seq.events > 0
    /\ DOMAIN transactions # {}

(***************************************************************************)
(* C22: every transaction row is inserted for an item that exists at the   *)
(* moment of the insert, with or without an event: no step adds a row      *)
(* whose item_id is not the id of an item row at that step; a call for an  *)
(* absent id adds none.                                                    *)
(***************************************************************************)
C22_InsertedForExistingItem ==
    [][/\ \A t \in DOMAIN transactions' \ DOMAIN transactions :
             /\ transactions'[t].item_id \in DOMAIN collaterals
             /\ transactions'[t].item_id = last'.item_id
       /\ (last'.op = "spend_collateral"
             /\ last'.item_id \notin DOMAIN collaterals)
          => transactions' = transactions]_vars

\* a row without an event was inserted for an existing item, next to a row
\* whose item has been deleted since
C22_Witness ==
    /\ last.op = "spend_collateral"
    /\ last.err = "none"
    /\ last.item_id \in DOMAIN collaterals
    /\ \E t, u \in DOMAIN transactions :
          /\ u < t
          /\ transactions[t].item_id = last.item_id
          /\ transactions[t].event_id = NoId
          /\ transactions[u].item_id \notin DOMAIN collaterals

(***************************************************************************)
(* SpecRecency: items spent and restocked for two events while the clock   *)
(* advances.                                                               *)
(***************************************************************************)
NextRecency ==
    \/ Tick
    \/ create_collateral("Banner", 2, NoId)
    \/ \E i \in ItemIdArgs, d \in {-1, 1}, e \in {1, 2} :
          spend_collateral(i, d, e)

SpecRecency == Init /\ [][NextRecency]_vars

(***************************************************************************)
(* C15: get_item_summary returns one row per existing item, ordered by     *)
(* item id descending.  If the item has a transaction with delta < 0 the   *)
(* row reports the event_id and the timestamp of the one with the highest  *)
(* transaction id, restocks being ignored even when they are newer;        *)
(* otherwise it reports no event and the item's own last_modified.         *)
(***************************************************************************)
C15_SummaryReportsNewestSpend ==
    LET rows == get_item_summary IN
    /\ Len(rows) = Cardinality(DOMAIN collaterals)
    /\ {rows[k].id : k \in DOMAIN rows} = DOMAIN collaterals
    /\ \A k \in DOMAIN rows :
          LET r == rows[k]
              S == {t \in DOMAIN transactions :
                      /\ transactions[t].item_id = r.id
                      /\ transactions[t].delta < 0} IN
          /\ k > 1 => rows[k - 1].id > r.id
          /\ S # {} =>
                \E t \in S :
                   /\ \A u \in S : u <= t
                   /\ r.last_event = transactions[t].event_id
                   /\ r.last_time = transactions[t].timestamp
          /\ S = {} =>
                /\ r.last_event = NoId
                /\ r.last_time = collaterals[r.id].last_modified

\* the item listed first was spent for event 1 and restocked later, in
\* another second, for event 2: its row reports event 1 and the earlier time
C15_Witness ==
    /\ Len(get_item_summary) = 2
    /\ LET r == get_item_summary[1] IN
       /\ r.last_event = 1
       /\ r.last_time < collaterals[r.id].last_modified
       /\ \E t, u \in DOMAIN transactions :
             /\ t < u
             /\ transactions[t].item_id = r.id
             /\ transactions[t].delta < 0
             /\ transactions[u].item_id = r.id
             /\ transactions[u].delta > 0
             /\ transactions[u].event_id = 2

(***************************************************************************)
(* SpecReport: items of several quantities created, overwritten and        *)
(* deleted while the clock advances, and the console's summary of them.    *)
(***************************************************************************)
NextReport ==
    \/ Tick
    \/ create_event("Expo", NULL, NULL, NULL)
    \/ \E n \in ItemNames, q \in {0, 2} : create_collateral(n, q, NoId)
    \/ \E i \in ItemIdArgs : update_collateral(i, "Chair", 2, NoId)
    \/ \E i \in ItemIdArgs : delete_collateral(i)
    \/ app_show_summary

SpecReport == Init /\ [][NextReport]_vars

NextEventForm ==
    \/ \E n \in NameTexts, l \in LocationTexts, r \in FormDateRanges :
          ui_add_event(n, l, r[1], r[2])
    \/ \E n \in NameTexts : create_event(n, NULL, NULL, NULL)
    \/ \E e \in EventIdArgs : delete_event(e)

SpecEventForm == Init /\ [][NextEventForm]_vars

(***************************************************************************)
(* C11: create_event with a name that is empty or consists of whitespace   *)
(* only fails with ValidationError before any write: no event row is       *)
(* created and no id is returned.                                          *)
(***************************************************************************)
C11_BlankEventNameRejected ==
    [][(last'.op = "create_event" /\ strip(last'.name) = <<>>)
          => /\ last'.err = "ValidationError"
             /\ store' = store]_vars

(***************************************************************************)
(* SpecItemForm: items created through the form of ui.py and by calls of   *)
(* create_collateral with any name text.                                   *)
(***************************************************************************)
NextItemForm ==
    \/ \E n \in NameTexts, q \in QuantityTexts : ui_add_item(n, q, NoId)
    \/ \E n \in NameTexts, q \in {0, 2} : create_collateral(n, q, NoId)
    \/ \E i \in ItemIdArgs : delete_collateral(i)

SpecItemForm == Init /\ [][NextItemForm]_vars

(***************************************************************************)
(* C12: create_collateral with an empty name or with a quantity that is    *)
(* no integer fails with ValidationError before any write: no item row is  *)
(* created.                                                                *)
(***************************************************************************)
C12_InvalidItemRejected ==
    [][(/\ last'.op = "create_collateral"
        /\ \/ last'.item_name = <<>>
           \/ last'.quantity \notin Int)
          => /\ last'.err = "ValidationError"
             /\ store' = store]_vars

(***************************************************************************)
(* SpecSearch: events with names and dates, and searches for them.         *)
(***************************************************************************)
SearchNames == {<<"E", "x">>, <<"e">>, <<"a", "_", "b">>}
SearchTerms == {<<>>, <<" ">>, <<"x">>, <<"E">>, <<"_">>, <<"%">>}
SearchDates == {"", "2025-01-02"}
SearchRanges == {<<NULL, NULL>>, <<"2025-01-01", "2025-01-02">>,
                 <<"2025-01-02", "2025-01-03">>}

NextSearch ==
    \/ \E n \in SearchNames, r \in SearchRanges :
          create_event(n, r[1], r[2], NULL)
    \/ \E e \in EventIdArgs : delete_event(e)
    \/ \E t \in SearchTerms : call_search_events(t)
    \/ \E t \in SearchTerms, a \in SearchDates, b \in SearchDates :
          app_search_events(t, a, b)

SpecSearch == Init /\ [][NextSearch]_vars

\* term occurs in text as a substring, letters compared without their case
contains(text, term) ==
    \E i \in 0..(Len(text) - Len(term)) :
       \A k \in 1..Len(term) : lower(text[i + k]) = lower(term[k])

(***************************************************************************)
(* C17: a search applies each filter given to it, and only those: the      *)
(* events found are exactly those whose name contains the term as a        *)
(* substring (if a term is given), whose start date is on or after the     *)
(* given start (if given) and whose end date is on or before the given     *)
(* end (if given); with no filter they are all events.                     *)
(***************************************************************************)
C17_SearchAppliesEveryFilter ==
    /\ last.op = "app.search_events" =>
          last.ret = {e \in DOMAIN events :
              /\ last.term # <<>> => contains(events[e].event_name, last.term)
              /\ last.start # "" =>
                    /\ events[e].start_date # NULL
                    /\ text_geq(events[e].start_date, last.start)
              /\ last.end # "" =>
                    /\ events[e].end_date # NULL
                    /\ text_geq(last.end, events[e].end_date)}
    /\ last.op = "search_events" =>
          {last.ret[k].id : k \in DOMAIN last.ret}
             = {e \in DOMAIN events :
                  contains(events[e].event_name, last.term)}

(***************************************************************************)
(* SpecLogs: log entries written while the clock advances, and read with   *)
(* limits below, at and above their number.                                *)
(***************************************************************************)
Limits == {-1, 0, 1, 2, 200}

NextLogs ==
    \/ Tick
    \/ \E a \in {"CREATE", "DELETE"}, d \in {NULL, "Expo"} :
          log_action("ui", a, d)
    \/ \E l \in Limits : call_view_logs(l)

SpecLogs == Init /\ [][NextLogs]_vars

\* the step is a call of op, not a step of the clock
calls(op) == now' = now /\ last'.op = op

(***************************************************************************)
(* C21 as stated: log_action only appends one entry and returns its id,    *)
(* the entries there before being left as they are, and view_logs(limit)   *)
(* returns entries newest first and never more than limit of them, for     *)
(* every integer limit.                                                    *)
(***************************************************************************)
C21_Original_NeverMoreThanLimit ==
    [][/\ calls("log_action") =>
             /\ DOMAIN logs' = DOMAIN logs \cup {last'.ret}
             /\ last'.ret \notin DOMAIN logs
             /\ \A i \in DOMAIN logs : logs'[i] = logs[i]
       /\ calls("view_logs") =>
             /\ logs' = logs
             /\ \A k \in DOMAIN last'.ret :
                   k > 1 => last'.ret[k - 1].id > last'.ret[k].id
             /\ Len(last'.ret) <= last'.limit]_vars

(***************************************************************************)
(* C21: log_action only appends one entry, with the actor, action and      *)
(* details given, and returns its id, the entries there before being left  *)
(* as they are.  view_logs(limit) changes nothing and returns, newest      *)
(* first, the limit entries of largest id, or all entries if there are     *)
(* fewer: never more than limit rows for limit >= 0.  For a negative       *)
(* limit it returns all entries.                                           *)
(***************************************************************************)
C21_LogAppendsAndNewestFirst ==
    [][/\ calls("log_action") =>
             /\ DOMAIN logs' = DOMAIN logs \cup {last'.ret}
             /\ last'.ret \notin DOMAIN logs
             /\ \A i \in DOMAIN logs : logs'[i] = logs[i]
             /\ logs'[last'.ret].actor = last'.actor
             /\ logs'[last'.ret].action = last'.action
             /\ logs'[last'.ret].details = last'.details
       /\ calls("view_logs") =>
             LET rows == last'.ret
                 n == Cardinality(DOMAIN logs) IN
             /\ logs' = logs
             /\ \A k \in DOMAIN rows :
                   /\ k > 1 => rows[k - 1].id > rows[k].id
                   /\ rows[k].id \in DOMAIN logs
                   /\ rows[k].action = logs[rows[k].id].action
                   /\ rows[k].when_ts = logs[rows[k].id].when_ts
                   /\ \A i \in DOMAIN logs :
                         i > rows[k].id => \E j \in DOMAIN rows : rows[j].id = i
             /\ last'.limit >= 0 =>
                   Len(rows) = (IF last'.limit < n THEN last'.limit ELSE n)
             /\ last'.limit < 0 => Len(rows) = n]_vars

\* three entries are in the log and the two newest were read
C21_Witness ==
    /\ last.op = "view_logs"
    /\ last.limit = 2
    /\ Cardinality(DOMAIN logs) >= 3
    /\ Len(last.ret) = 2
    /\ last.ret[1].id > last.ret[2].id
    /\ last.ret[1].when_ts > last.ret[2].when_ts

(***************************************************************************)
(* SpecClock: events and items written and read while the clock advances.  *)
(***************************************************************************)
NextClock ==
    \/ Tick
    \/ create_event("Expo", NULL, NULL, NULL)
    \/ update_event(1, "Expo", NULL, NULL, NULL)
    \/ create_collateral("Banner", 2, NoId)
    \/ update_collateral(1, "Banner", 2, NoId)
    \/ spend_collateral(1, 1, NoId)
    \/ call_get_item_summary

SpecClock == Init /\ [][NextClock]_vars

(***************************************************************************)
(* C23: with now as the time of a call, every successful create_event and  *)
(* update_event sets the last_modified of its event to now, and every      *)
(* successful create_collateral, update_collateral and spend_collateral    *)
(* that of its item; no other step, a read, a step of the clock or a call  *)
(* for another row, changes the last_modified of a row.                    *)
(***************************************************************************)
C23_LastModifiedIsTimeOfWrite ==
    [][/\ calls("create_event") =>
             events'[last'.ret].last_modified = now
       /\ (calls("update_event") /\ last'.event_id \in DOMAIN events) =>
             events'[last'.event_id].last_modified = now
       /\ calls("create_collateral") =>
             collaterals'[last'.ret].last_modified = now
       /\ (calls("update_collateral")
              /\ last'.item_id \in DOMAIN collaterals) =>
             collaterals'[last'.item_id].last_modified = now
       /\ (calls("spend_collateral") /\ last'.err = "none") =>
             collaterals'[last'.item_id].last_modified = now
       /\ \A e \in DOMAIN events :
             /\ e \in DOMAIN events'
             /\ events'[e].last_modified # events[e].last_modified
                   => calls("update_event") /\ last'.event_id = e
       /\ \A i \in DOMAIN collaterals :
             /\ i \in DOMAIN collaterals'
             /\ collaterals'[i].last_modified # collaterals[i].last_modified
                   => /\ calls("update_collateral") \/ calls("spend_collateral")
                      /\ last'.item_id = i]_vars

\* the older event and the older item were written again after the newer
\* ones were created, the item by the adjustment made last
C23_Witness ==
    /\ last.op = "spend_collateral"
    /\ last.err = "none"
    /\ {1, 2} \subseteq DOMAIN collaterals
    /\ {1, 2} \subseteq DOMAIN events
    /\ collaterals[1].last_modified = now
    /\ collaterals[2].last_modified < now
    /\ collaterals[2].last_modified > 0
    /\ events[1].last_modified > events[2].last_modified

(***************************************************************************)
(* SpecRace: two processes adjust items at the same time, statement by     *)
(* statement, and may be interrupted.                                      *)
(***************************************************************************)
NextRace ==
    \/ no_writer /\ create_collateral("Banner", 2, NoId)
    \/ \E p \in Procs, i \in {1, MaxItems + 1}, d \in {-1, 1} :
          spend_select(p, i, d, NoId)
    \/ \E p \in Procs : spend_update(p)
    \/ \E p \in Procs : spend_busy(p)
    \/ \E p \in Procs : spend_insert(p)
    \/ \E p \in Procs : spend_commit(p)
    \/ \E p \in Procs : interrupt(p)

SpecRace == Init /\ [][NextRace]_vars

(***************************************************************************)
(* C24: when two spend_collateral calls on one item interleave, both       *)
(* reading the quantity before either writes, the last writer wins: the    *)
(* call that commits stores max(q + delta, 0) for the quantity q it read   *)
(* itself and its own delta, whatever was committed in between, and its    *)
(* transaction row is added to the rows already recorded, so that both     *)
(* rows are there.                                                         *)
(***************************************************************************)
C24_LastWriterWins ==
    [][\A p \in Procs :
          (conn[p].pc = "inserted" /\ conn'[p] = Idle
              /\ last'.op = "spend_collateral")
          => LET c == conn[p]
                 sum == c.cur_row + c.delta IN
             /\ c.item_id \in DOMAIN collaterals'
             /\ collaterals'[c.item_id].quantity =
                   (IF sum >= 0 THEN sum ELSE 0)
             /\ \A t \in DOMAIN transactions :
                   /\ t \in DOMAIN transactions'
                   /\ transactions'[t] = transactions[t]
             /\ \E t \in DOMAIN transactions' \ DOMAIN transactions :
                   /\ transactions'[t].item_id = c.item_id
                   /\ transactions'[t].delta = c.delta
                   /\ DOMAIN transactions' = DOMAIN transactions \cup {t}]_vars

\* item 1, created with 2, has two recorded spends of 1 and the quantity 1:
\* the second writer had read 2
C24_Witness ==
    /\ last.op = "spend_collateral"
    /\ last.err = "none"
    /\ last.item_id = 1
    /\ {1, 2} \subseteq DOMAIN transactions
    /\ transactions[1].item_id = 1 /\ transactions[1].delta = -1
    /\ transactions[2].item_id = 1 /\ transactions[2].delta = -1
    /\ DOMAIN transactions = {1, 2}
    /\ collaterals[1].quantity = 1

(***************************************************************************)
(* C28: spend_collateral is atomic in what it persists: the new quantity   *)
(* and the transaction row reach the tables in one step, the commit.  No   *)
(* step changes an item row without adding a transaction row for it, no    *)
(* step adds a transaction row without writing the quantity returned into  *)
(* its item, and an interruption, also one between the UPDATE and the      *)
(* INSERT, leaves the tables as they were.                                 *)
(***************************************************************************)
C28_QuantityAndRowCommitTogether ==
    [][/\ \A i \in DOMAIN collaterals :
             (i \in DOMAIN collaterals' /\ collaterals'[i] # collaterals[i])
             => \E t \in DOMAIN transactions' \ DOMAIN transactions :
                   transactions'[t].item_id = i
       /\ \A t \in DOMAIN transactions' \ DOMAIN transactions :
             /\ last'.op = "spend_collateral"
             /\ last'.err = "none"
             /\ transactions'[t].item_id = last'.item_id
             /\ collaterals'[last'.item_id].quantity = last'.ret
       /\ (\E p \in Procs : conn[p] # Idle /\ conn'[p] = Idle
                               /\ last'.op = "interrupt")
          => store' = store]_vars

\* a call was interrupted between its UPDATE and its INSERT: the item has
\* the quantity it was created with and no transaction row
C28_Witness ==
    /\ last.op = "interrupt"
    /\ last.pc = "updated"
    /\ 1 \in DOMAIN collaterals
    /\ collaterals[1].quantity = 2
    /\ DOMAIN transactions = {}
    /\ \A p \in Procs : conn[p] = Idle

(***************************************************************************)
(* The console's delete_event statement by statement, with a process that  *)
(* may be interrupted between its statements.                              *)
(***************************************************************************)
NextInterrupt ==
    \/ no_writer /\ create_event("Expo", NULL, NULL, NULL)
    \/ \E e \in {NoId, 1} : no_writer /\ create_collateral("Banner", 2, e)
    \/ \E p \in Procs, e \in {1, MaxEvents + 1}, c \in {"y", "n"} :
          app_delete_select(p, e, c)
    \/ \E p \in Procs : app_delete_children(p)
    \/ \E p \in Procs : app_delete_busy(p)
    \/ \E p \in Procs : app_delete_parent(p)
    \/ \E p \in Procs : app_delete_commit(p)
    \/ \E p \in Procs : interrupt(p)

SpecInterrupt == Init /\ [][NextInterrupt]_vars

\* the items of table t that refer to an event which table ev does not hold
dangling(t, ev) ==
    {i \in DOMAIN t : t[i].event_id # NoId /\ t[i].event_id \notin DOMAIN ev}

\* between(p): process p has run the first DELETE of delete_event and not
\* yet the commit
between(p) == conn[p].pc \in {"children_deleted", "event_deleted"}

(***************************************************************************)
(* C25 as stated: when the console's delete_event of an event with linked  *)
(* items is interrupted between its two DELETE statements, the persisted   *)
(* state that results holds an item whose event_id refers to an event      *)
(* that no longer exists.                                                  *)
(***************************************************************************)
C25_Original_InterruptLeavesDanglingItems ==
    [][\A p \in Procs :
          (/\ between(p)
           /\ conn'[p] = Idle
           /\ last'.op = "interrupt"
           /\ \E i \in DOMAIN collaterals :
                 collaterals[i].event_id = conn[p].eid_i)
          => \E i \in DOMAIN collaterals' :
                /\ collaterals'[i].event_id = conn[p].eid_i
                /\ conn[p].eid_i \notin DOMAIN events']_vars

(***************************************************************************)
(* C25: the two DELETE statements of the console's delete_event run in     *)
(* one transaction.  An interruption between them leaves the events, the   *)
(* items and the transactions exactly as they were before the call, so it  *)
(* adds no item with a dangling event_id; and rows leave the items or the  *)
(* events table only in the committing step, which removes the event       *)
(* together with every item linked to it.                                  *)
(***************************************************************************)
C25_InterruptedCascadeIsRolledBack ==
    [][/\ \A p \in Procs :
             (between(p) /\ conn'[p] = Idle /\ last'.op = "interrupt")
             => /\ store' = store
                /\ dangling(collaterals', events') = dangling(collaterals, events)
       /\ (\/ DOMAIN collaterals \ DOMAIN collaterals' # {}
           \/ DOMAIN events \ DOMAIN events' # {})
          => /\ last'.op = "app.delete_event"
             /\ last'.deleted
             /\ DOMAIN events' = DOMAIN events \ {last'.event_id}
             /\ \A i \in DOMAIN collaterals' :
                   collaterals'[i].event_id # last'.event_id]_vars

C25_Witness ==
    /\ last.op = "interrupt"
    /\ last.pc = "children_deleted"
    /\ \A p \in Procs : conn[p] = Idle
    /\ 1 \in DOMAIN events
    /\ 1 \in DOMAIN collaterals
    /\ collaterals[1].event_id = 1

(***************************************************************************)
(* SpecLinks: the backend functions that write events and items; an item   *)
(* is given no event or the id of the first event.                         *)
(***************************************************************************)
NextLinks ==
    \/ create_event("Expo", NULL, NULL, NULL)
    \/ \E e \in EventIdArgs : delete_event(e)
    \/ \E e \in {NoId, 1} : create_collateral("Banner", 2, e)
    \/ \E e \in {NoId, 1} : update_collateral(1, "Banner", 1, e)
    \/ \E i \in ItemIdArgs : delete_collateral(i)
    \/ spend_collateral(1, -1, NoId)

SpecLinks == Init /\ [][NextLinks]_vars

(***************************************************************************)
(* C26: after any sequence of create_event, delete_event,                  *)
(* create_collateral, update_collateral, delete_collateral and             *)
(* spend_collateral calls, every existing item whose event_id is not null  *)
(* refers to an event that exists.                                         *)
(***************************************************************************)
C26_ItemsReferToExistingEvents ==
    \A i \in DOMAIN collaterals :
       collaterals[i].event_id # NoId
       => collaterals[i].event_id \in DOMAIN events

(***************************************************************************)
(* SpecDrift: items created with quantity 1 and afterwards changed by      *)
(* spend_collateral only, with a delta that overspends and one that        *)
(* restocks.                                                               *)
(***************************************************************************)
NextDrift ==
    \/ create_collateral("Banner", 1, NoId)
    \/ \E i \in ItemIdArgs, d \in {-2, 1} : spend_collateral(i, d, NoId)
    \/ \E i \in ItemIdArgs : delete_collateral(i)

SpecDrift == Init /\ [][NextDrift]_vars

\* the sum of the deltas of the rows ids of transactions table tx
RECURSIVE sum_deltas(_, _)
sum_deltas(tx, ids) ==
    IF ids = {} THEN 0
    ELSE LET t == CHOOSE x \in ids : TRUE IN
         tx[t].delta + sum_deltas(tx, ids \ {t})

\* what the quantity of item i in items table t is above the sum of the
\* deltas recorded for i in transactions table tx
drift(t, tx, i) ==
    t[i].quantity
       - sum_deltas(tx, {r \in DOMAIN tx : tx[r].item_id = i})

(***************************************************************************)
(* C27: an item created with quantity q0 (here 1) and changed by           *)
(* spend_collateral only has, in every state, a quantity of at least q0    *)
(* plus the sum of the deltas of its transaction rows.  The two are equal  *)
(* when the item is created; a step changes their difference exactly when  *)
(* it is a spend_collateral on the item that was clamped at zero, and      *)
(* then it makes the difference larger; no step makes it smaller again.    *)
(***************************************************************************)
C27_QuantityAtLeastRecordedSum ==
    /\ [](\A i \in DOMAIN collaterals : drift(collaterals, transactions, i) >= 1)
    /\ [][/\ \A i \in DOMAIN collaterals' \ DOMAIN collaterals :
                drift(collaterals', transactions', i) = last'.quantity
          /\ \A i \in DOMAIN collaterals \cap DOMAIN collaterals' :
                LET before == drift(collaterals, transactions, i)
                    after == drift(collaterals', transactions', i)
                    clamped ==
                       /\ last'.op = "spend_collateral"
                       /\ last'.err = "none"
                       /\ last'.item_id = i
                       /\ collaterals[i].quantity + last'.delta < 0 IN
                /\ after >= before
                /\ after > before <=> clamped]_vars

\* item 1 was overspent by 2 and restocked by 1: it holds 1 again, which is
\* more than 1 + (-2 + 1)
C27_Witness ==
    /\ 1 \in DOMAIN collaterals
    /\ collaterals[1].quantity = 1
    /\ DOMAIN transactions = {1, 2}
    /\ transactions[1].item_id = 1 /\ transactions[1].delta = -2
    /\ transactions[2].item_id = 1 /\ transactions[2].delta = 1
    /\ drift(collaterals, transactions, 1) = 2

(***************************************************************************)
(* C29: item and event ids are unique and never given out again.  Every    *)
(* id in use, and every item id a transaction row names, is at most the    *)
(* AUTOINCREMENT counter of its table, which never goes down; a create     *)
(* call returns an id above the counter, so an id no row has now and no    *)
(* deleted row had before, and get_transactions of a newly created item    *)
(* returns no row, whatever rows deleted items have left behind.           *)
(***************************************************************************)
C29_IdsNeverReassigned ==
    /\ [](/\ \A i \in DOMAIN collaterals : i <= seq.collaterals
          /\ \A e \in DOMAIN events : e <= seq.events
          /\ \A t \in DOMAIN transactions :
                transactions[t].item_id <= seq.collaterals)
    /\ [][/\ seq'.collaterals >= seq.collaterals
          /\ seq'.events >= seq.events
          /\ last'.op = "create_collateral"
             => /\ last'.ret > seq.collaterals
                /\ last'.ret \notin DOMAIN collaterals
                /\ DOMAIN collaterals' = DOMAIN collaterals \cup {last'.ret}
                /\ select_transactions(transactions', events', last'.ret) = << >>
          /\ last'.op = "create_event"
             => /\ last'.ret > seq.events
                /\ last'.ret \notin DOMAIN events
                /\ DOMAIN events' = DOMAIN events \cup {last'.ret}]_vars

\* item 1 was adjusted and deleted, and the item created after that has
\* another id and an empty history
C29_Witness ==
    /\ last.op = "create_collateral"
    /\ last.ret = 2
    /\ DOMAIN collaterals = {2}
    /\ \E t \in DOMAIN transactions : transactions[t].item_id = 1
    /\ get_transactions(2) = << >>

(***************************************************************************)
(* SpecConsole: the console's update_quantity next to spend_collateral,    *)
(* both on the first item, which belongs to the first event or to none.    *)
(***************************************************************************)
NextConsole ==
    \/ create_event("Expo", NULL, NULL, NULL)
    \/ \E e \in {NoId, 1} : create_collateral("Banner", 2, e)
    \/ \E e \in {1, 2}, i \in {1, MaxItems + 1}, c \in {-3, 1} :
          app_update_quantity(e, i, c)
    \/ spend_collateral(1, -3, NoId)

SpecConsole == Init /\ [][NextConsole]_vars

(***************************************************************************)
(* C30: when the console's update_quantity gets as far as an existing      *)
(* item i with quantity q and is given the change c, it stores exactly     *)
(* q + c for i, changes no other item and appends no transaction row; the  *)
(* stored value is what spend_collateral would store, max(q + c, 0), when  *)
(* q + c >= 0 and is another value, a negative one, when q + c < 0.        *)
(***************************************************************************)
C30_ConsoleChangeHasNoFloorNoRow ==
    [][\A i \in DOMAIN collaterals :
          (/\ last'.op = "app.update_quantity"
           /\ last'.cid_i = i
           /\ DOMAIN events # {}
           /\ \E j \in DOMAIN collaterals :
                 collaterals[j].event_id = last'.sel_i)
          => LET q == collaterals[i].quantity
                 c == last'.change IN
             /\ last'.updated
             /\ DOMAIN collaterals' = DOMAIN collaterals
             /\ collaterals'[i].quantity = q + c
             /\ \A j \in DOMAIN collaterals \ {i} :
                   collaterals'[j] = collaterals[j]
             /\ transactions' = transactions
             /\ q + c >= 0 => collaterals'[i].quantity = new_qty(q, c)
             /\ q + c < 0 => /\ collaterals'[i].quantity # new_qty(q, c)
                             /\ collaterals'[i].quantity < 0]_vars

\* an item of quantity 2 was changed by -3 and now holds -1
C30_Witness ==
    /\ last.op = "app.update_quantity"
    /\ last.updated
    /\ last.change = -3
    /\ collaterals[last.cid_i].quantity = -1
    /\ transactions = << >>

=============================================================================
